---- MODULE Spec2Model ----
(***************************************************************************)
(* The batched log-delivery pipeline of rplog (src/datadog.go): the        *)
(* producers' Write, the bounded channel, the consumer goroutine           *)
(* collectAndSendBatches with its three select cases, and send with its    *)
(* retry loop; the start of the pipeline under the package's sync.Once     *)
(* (src/log.go, InitDatadog); what send's JSON encoder makes of the        *)
(* entries of a batch; the bytes of an entry from Write to send; and the   *)
(* trace package (src/datadog.go 120-277).                                 *)
(*                                                                         *)
(* Byte sizes and capacities are scaled down (see the bounds below); the   *)
(* order relations between them that hold in the source are kept:          *)
(* maxLogSize < maxContentSize and maxLogsPerBatch < maxContentSize.       *)
(***************************************************************************)
EXTENDS Naturals, Sequences, FiniteSets

VARIABLES
    in,            \* the channel logEvents: entries enqueued and not yet received
    ret,           \* what the last Write call returned, with the length it was given
    cancelled,     \* ctx.Done() is closed
    tickPending,   \* ticker.C (a channel of capacity 1) holds a tick
    tickerStopped, \* ticker.Stop() has run
    pc,            \* the consumer: "select", "attempt" (in send's loop), "returned", "done"
    branch,        \* the select case whose send is in progress
    entry,         \* the entry received by the case "entry" and not yet appended
    batches,       \* the consumer's local slice batches
    batchSize,     \* the consumer's local running total batchSize
    i,             \* send's loop counter
    errs,          \* send's local slice errs
    slept,         \* the durations (ms) send has slept in the current call
    bufRead,       \* an earlier client.Do of this call has read the body from buf
    sendRes,       \* what send has just returned (while pc = "returned")
    enqueued,      \* history: the entries Write has put on the channel, in order
    sent,          \* history: the calls of send in order, each with the select
                   \* case that made it (by) and the batch it was given (batch)
    once,          \* the package's sync.Once: its done flag and the holder of its mutex
    callers,       \* per goroutine: the function it is calling (InitDatadog, Init, Log)
                   \* and where it is in once.Do
    created,       \* how many channels, consumer goroutines and loggers have been made
    calls,         \* history: how many calls were begun, and how many of InitDatadog
    rawBatch,      \* a batch of entries, byte by byte, given to the JSON encoder
    encoded,       \* what the encoder returned for rawBatch, and what it wrote to buf
    callerBufs,    \* the byte buffers of the callers of Write, by buffer
    held,          \* the entries Write has accepted and send has not encoded yet: the
                   \* buffer each points into, and the bytes it held when Write was called
    delivered,     \* history: per entry encoded, the bytes read and the bytes written
    clock,         \* time.Now(), in units of 1/TicksPerSecond s
    uuids,         \* how many identifiers newuuid has generated
    reqCtx,        \* the Trace in the request's context, if any
    hdr,           \* the request's headers, by canonical key
    saved,         \* the Trace last given to SaveToHeader, while hdr is as it left it
    got            \* the Trace FromHeaderOrNew last returned, while hdr is as it read it

vars == <<in, ret, cancelled, tickPending, tickerStopped, pc, branch, entry,
          batches, batchSize, i, errs, slept, bufRead, sendRes, enqueued, sent,
          once, callers, created, calls, rawBatch, encoded,
          callerBufs, held, delivered, clock, uuids, reqCtx, hdr, saved, got>>

producerVars == <<in, ret, enqueued>>
envVars == <<cancelled, tickPending, tickerStopped>>
consumerVars ==
    <<pc, branch, entry, batches, batchSize, i, errs, slept, bufRead, sendRes, sent>>
startupVars == <<once, callers, created, calls>>
encoderVars == <<rawBatch, encoded>>
sliceVars == <<callerBufs, held, delivered>>
traceVars == <<clock, uuids, reqCtx, hdr, saved, got>>

----------------------------------------------------------------------------
(* Bounds of the model. *)

\* maxContentSize (5 MiB in the source), scaled
maxContentSize == 5

\* maxLogSize (256 KiB in the source), scaled
maxLogSize == 3

\* maxLogsPerBatch (1000 in the source), scaled
maxLogsPerBatch == 3

\* capacity of the channel made by InitDatadog (1000 in the source), scaled
QueueCap == 2

\* the number of entries the producers enqueue in one run
MaxWrites == 4

\* the goroutines that call InitDatadog, Init or Log
NumCallers == 2

\* the number of such calls in one run
MaxCalls == 3

\* the longest batch given to the JSON encoder on its own
MaxBatchLen == 2

\* the buffers the callers of Write write their records in
NumBuffers == 2

\* the number of entries Write accepts in one run of the byte view
MaxHeld == 2

\* time.Now() runs from 0 to MaxClock
MaxClock == 4

\* time.Time is finer than the seconds of RFC 3339: ticks in a second
TicksPerSecond == 2

\* the identifiers newuuid generates in one run
MaxUuids == 4

\* the identifiers other than the empty string that arrive from outside
NumPeerIDs == 2

(* Program constants. *)
maxRetries == 5

backoffUnitMs == 10

----------------------------------------------------------------------------
(* Inputs. *)

\* The byte slices handed to Write: their length, and whether the bytes are
\* valid JSON (json.RawMessage is encoded verbatim, after validation).
Payloads ==
    { [len |-> 1, valid |-> TRUE],
      [len |-> maxLogSize, valid |-> TRUE],
      [len |-> maxLogSize + 1, valid |-> TRUE],
      [len |-> 1, valid |-> FALSE] }

\* client.Do returns an error and no response
TransportError == [err |-> TRUE, status |-> 0]

\* What the network and the destination make of a request that is sent whole:
\* a transport error, or a response with a status code.
Responses ==
    {TransportError} \cup {[err |-> FALSE, status |-> c] : c \in {100, 200, 399, 400, 500}}

NoEntry == [id |-> 0, len |-> 0, valid |-> TRUE]

NoRet == [len |-> 0, n |-> 0, err |-> "none"]

NoSend == [attempts |-> 0, errs |-> <<>>, err |-> "none"]

\* the goroutines of the program that use the package
Callers == 1..NumCallers

\* the package's entry points that go through once.Do
InitFunctions == {"InitDatadog", "Init", "Log"}

NotCalling == [fn |-> "none", pc |-> "idle"]

NotEncoded == [err |-> "none", body |-> <<>>]

\* the buffers of the callers of Write
Buffers == 1..NumBuffers

EmptyBuffers == [b \in Buffers |-> <<>>]

\* the zero value of trace.Trace; identifiers are numbers, 0 the empty string
ZeroTrace ==
    [TraceID |-> 0, RequestID |-> 0, TraceSource |-> "", RequestSource |-> "",
     TraceStart |-> 0, RequestStart |-> 0]

\* FromCtx on a context without a Trace: the zero value, and ok = false
NoCtxTrace == [ok |-> FALSE, t |-> ZeroTrace]

\* http.Header keys are stored in canonical form
CanonicalKeys ==
    {"X-Trace-Id", "X-Request-Id", "X-Trace-Start", "X-Trace-Source", "X-Request-Source"}

\* a header value that is an RFC 3339 time, an unparsable one, or none
NoTime == [kind |-> "missing", sec |-> 0]

\* no header set: Get returns the empty string for every key
NoHeaders ==
    [k \in CanonicalKeys |->
        CASE k \in {"X-Trace-Id", "X-Request-Id"} -> 0
          [] k = "X-Trace-Start" -> NoTime
          [] OTHER -> ""]

\* no Write seen by the byte view
SlicesIdle ==
    /\ callerBufs = EmptyBuffers
    /\ held = <<>>
    /\ delivered = <<>>

\* a request with a background context and no headers
TraceIdleRequest ==
    /\ reqCtx = NoCtxTrace
    /\ hdr = NoHeaders
    /\ saved = NoCtxTrace
    /\ got = NoCtxTrace

\* no request seen by the trace package
TraceIdle ==
    /\ clock = 0
    /\ uuids = 0
    /\ TraceIdleRequest

----------------------------------------------------------------------------
(* Helpers. *)

RECURSIVE SumLen(_)
SumLen(s) == IF s = <<>> THEN 0 ELSE Head(s).len + SumLen(Tail(s))

RECURSIVE Flatten(_)
Flatten(ss) == IF ss = <<>> THEN <<>> ELSE Head(ss) \o Flatten(Tail(ss))

IsPrefix(s, t) == Len(s) <= Len(t) /\ SubSeq(t, 1, Len(s)) = s

\* the batches send was given, in call order
SentBatches == [k \in 1..Len(sent) |-> sent[k].batch]

\* the entries the consumer has received from the channel so far
Received == Len(enqueued) - Len(in)

----------------------------------------------------------------------------
(* Write: src/datadog.go 106-116. *)

\* faulty variant: the size limit is off by one
TooLargeOffByOne(b) == b.len > maxLogSize + 1

\* the size check of line 107
TooLarge(b) == b.len > maxLogSize

\* faulty variant: the channel takes one entry more than its capacity
ChannelHasRoomOffByOne(q) == Len(q) <= QueueCap

\* faulty variant: the channel is unbounded
ChannelAlwaysHasRoom(q) == TRUE

\* the select of lines 110-115: the send case is ready iff the channel has room
ChannelHasRoom(q) == Len(q) < QueueCap

\* faulty variant: the entry goes to the head of the channel
EnqueueFront(q, e) == <<e>> \o q

\* line 111: the channel is FIFO, the entry goes to its tail
Enqueue(q, e) == Append(q, e)

\* faulty variant: a blocking channel send (no default case in the select)
WriteBlocking(b) ==
    /\ Len(enqueued) < MaxWrites
    /\ IF TooLarge(b)
       THEN /\ ret' = [len |-> b.len, n |-> 0, err |-> "EntryTooLarge"]
            /\ UNCHANGED <<in, enqueued>>
       ELSE /\ ChannelHasRoom(in)
            /\ LET e == [id |-> Len(enqueued) + 1, len |-> b.len, valid |-> b.valid]
               IN /\ in' = Enqueue(in, e)
                  /\ enqueued' = Append(enqueued, e)
                  /\ ret' = [len |-> b.len, n |-> b.len, err |-> "nil"]
    /\ UNCHANGED <<envVars, consumerVars>>
    /\ UNCHANGED <<startupVars, encoderVars, sliceVars, traceVars>>

Write(b) ==
    /\ Len(enqueued) < MaxWrites
    /\ IF TooLarge(b)
       THEN /\ ret' = [len |-> b.len, n |-> 0, err |-> "EntryTooLarge"]
            /\ UNCHANGED <<in, enqueued>>
       ELSE IF ChannelHasRoom(in)
       THEN LET e == [id |-> Len(enqueued) + 1, len |-> b.len, valid |-> b.valid]
            IN /\ in' = Enqueue(in, e)
               /\ enqueued' = Append(enqueued, e)
               /\ ret' = [len |-> b.len, n |-> b.len, err |-> "nil"]
       ELSE /\ ret' = [len |-> b.len, n |-> 0, err |-> "QueueFull"]
            /\ UNCHANGED <<in, enqueued>>
    /\ UNCHANGED <<envVars, consumerVars>>
    /\ UNCHANGED <<startupVars, encoderVars, sliceVars, traceVars>>

----------------------------------------------------------------------------
(* The environment of the consumer: the context and the ticker. *)

\* the caller cancels ctx
Cancel ==
    /\ ~cancelled
    /\ cancelled' = TRUE
    /\ UNCHANGED <<tickPending, tickerStopped, producerVars, consumerVars>>
    /\ UNCHANGED <<startupVars, encoderVars, sliceVars, traceVars>>

\* the ticker fires: a tick is put on ticker.C unless one is waiting there
TickerFire ==
    /\ ~tickerStopped
    /\ ~tickPending
    /\ tickPending' = TRUE
    /\ UNCHANGED <<cancelled, tickerStopped, producerVars, consumerVars>>
    /\ UNCHANGED <<startupVars, encoderVars, sliceVars, traceVars>>

\* the deferred ticker.Stop() of InitDatadog, line 69
TickerStop ==
    /\ ~tickerStopped
    /\ tickerStopped' = TRUE
    /\ UNCHANGED <<cancelled, tickPending, producerVars, consumerVars>>
    /\ UNCHANGED <<startupVars, encoderVars, sliceVars, traceVars>>

----------------------------------------------------------------------------
(* send: src/datadog.go 31-61. *)

\* faulty variant: the encoder takes any bytes
EncodeNeverFails(batch) == FALSE

\* json.NewEncoder(buf).Encode(batch), line 34: fails on an entry that is not JSON
EncodeFails(batch) == \E k \in 1..Len(batch) : ~batch[k].valid

\* faulty variant: status 400 is taken for a success
AttemptFailedAbove400(r) == r.err \/ r.status > 400

\* lines 48 and 53: the attempt failed
AttemptFailed(r) == r.err \/ r.status >= 400

\* client.Do(req), line 47, on the request built once at line 37 with buf as
\* its body: the transport reads the body from buf. Once an earlier attempt
\* has read it, buf is empty while the request still announces its length,
\* and the round trip fails with an error whatever the destination would
\* have answered.
DoResult(r) == IF bufRead THEN TransportError ELSE r

\* whether the round trip reads the body from buf: always when a response
\* comes back; a transport error may come before (no connection) or after
ReadsBody(r) == IF r.err THEN BOOLEAN ELSE {TRUE}

\* faulty variant: the loop bound is off by one
LoopContinuesOffByOne(k) == k <= maxRetries

\* line 45: the loop goes on
LoopContinues(k) == k < maxRetries

\* faulty variant: the sleep doubles from one attempt to the next
BackoffExponential(k) == IF k = 0 THEN 0 ELSE backoffUnitMs * 2 ^ (k - 1)

\* line 46: the sleep before attempt k
Backoff(k) == backoffUnitMs * k

\* the call send(buf, apiKey, url, batches) up to the retry loop, lines 32-44
CallSend(br, e) ==
    /\ sent' = Append(sent, [by |-> br, batch |-> batches])
    /\ branch' = br
    /\ entry' = e
    /\ IF EncodeFails(batches)
       THEN /\ pc' = "returned"
            /\ sendRes' = [attempts |-> 0, errs |-> <<>>, err |-> "EncodingFailure"]
       ELSE /\ pc' = "attempt"
            /\ UNCHANGED sendRes
    /\ UNCHANGED <<batches, batchSize, i, errs, slept, bufRead>>

\* one iteration of the loop of lines 45-59, and the return of line 57 or 60
Attempt(r) ==
    /\ pc = "attempt"
    /\ LoopContinues(i)
    /\ slept' = Append(slept, Backoff(i))
    /\ i' = i + 1
    /\ \E c \in ReadsBody(r) : bufRead' = (bufRead \/ c)
    /\ IF AttemptFailed(DoResult(r))
       THEN /\ errs' = Append(errs, i)
            /\ IF LoopContinues(i + 1)
               THEN UNCHANGED <<pc, sendRes>>
               ELSE /\ pc' = "returned"
                    /\ sendRes' = [attempts |-> i + 1, errs |-> Append(errs, i),
                                   err |-> "DeliveryFailure"]
       ELSE /\ pc' = "returned"
            /\ sendRes' = [attempts |-> i + 1, errs |-> errs, err |-> "nil"]
            /\ UNCHANGED errs
    /\ UNCHANGED <<branch, entry, batches, batchSize, sent, producerVars, envVars>>
    /\ UNCHANGED <<startupVars, encoderVars, sliceVars, traceVars>>

\* faulty variant: an error returned by send ends the consumer
AfterSendStopsOnError ==
    /\ pc = "returned"
    /\ sendRes' = NoSend
    /\ branch' = "none"
    /\ entry' = NoEntry
    /\ i' = 0
    /\ errs' = <<>>
    /\ slept' = <<>>
    /\ bufRead' = FALSE
    /\ CASE branch = "tick" ->
              /\ batches' = <<>>
              /\ UNCHANGED batchSize
              /\ pc' = IF sendRes.err = "nil" THEN "select" ELSE "done"
         [] branch = "ctx" ->
              /\ UNCHANGED <<batches, batchSize>>
              /\ pc' = "done"
         [] branch = "entry" ->
              /\ batches' = <<entry>>
              /\ batchSize' = entry.len
              /\ pc' = IF sendRes.err = "nil" THEN "select" ELSE "done"
    /\ UNCHANGED <<sent, producerVars, envVars>>
    /\ UNCHANGED <<startupVars, encoderVars, sliceVars, traceVars>>

\* faulty variant: after a tick flush that failed the batch is kept for the next flush
AfterSendKeepsFailedBatch ==
    /\ pc = "returned"
    /\ sendRes' = NoSend
    /\ branch' = "none"
    /\ entry' = NoEntry
    /\ i' = 0
    /\ errs' = <<>>
    /\ slept' = <<>>
    /\ bufRead' = FALSE
    /\ CASE branch = "tick" ->
              /\ batches' = IF sendRes.err = "nil" THEN <<>> ELSE batches
              /\ UNCHANGED batchSize
              /\ pc' = "select"
         [] branch = "ctx" ->
              /\ UNCHANGED <<batches, batchSize>>
              /\ pc' = "done"
         [] branch = "entry" ->
              /\ batches' = <<entry>>
              /\ batchSize' = entry.len
              /\ pc' = "select"
    /\ UNCHANGED <<sent, producerVars, envVars>>
    /\ UNCHANGED <<startupVars, encoderVars, sliceVars, traceVars>>

\* what the consumer does once send has returned, by select case:
\* line 86, line 91, lines 96-100 (the error send returns is dropped)
AfterSend ==
    /\ pc = "returned"
    /\ sendRes' = NoSend
    /\ branch' = "none"
    /\ entry' = NoEntry
    /\ i' = 0
    /\ errs' = <<>>
    /\ slept' = <<>>
    /\ bufRead' = FALSE
    /\ CASE branch = "tick" ->
              /\ batches' = <<>>
              /\ UNCHANGED batchSize
              /\ pc' = "select"
         [] branch = "ctx" ->
              /\ UNCHANGED <<batches, batchSize>>
              /\ pc' = "done"
         [] branch = "entry" ->
              /\ batches' = <<entry>>
              /\ batchSize' = entry.len
              /\ pc' = "select"
    /\ UNCHANGED <<sent, producerVars, envVars>>
    /\ UNCHANGED <<startupVars, encoderVars, sliceVars, traceVars>>

----------------------------------------------------------------------------
(* collectAndSendBatches: src/datadog.go 75-103. *)

\* faulty variant: the byte ceiling is compared with > instead of >=
MustFlushFirstBytesOffByOne(e) ==
    Len(batches) >= maxLogsPerBatch \/ e.len + batchSize > maxContentSize

\* faulty variant: the count ceiling is compared with > instead of >=
MustFlushFirstCountOffByOne(e) ==
    Len(batches) > maxLogsPerBatch \/ e.len + batchSize >= maxContentSize

\* line 94
MustFlushFirst(e) ==
    Len(batches) >= maxLogsPerBatch \/ e.len + batchSize >= maxContentSize

\* faulty variant: the case calls send whether the batch is empty or not
SelectTickAlwaysSends ==
    /\ pc = "select"
    /\ tickPending
    /\ tickPending' = FALSE
    /\ CallSend("tick", NoEntry)
    /\ UNCHANGED <<cancelled, tickerStopped, producerVars>>
    /\ UNCHANGED <<startupVars, encoderVars, sliceVars, traceVars>>

\* faulty variant: a tick is also received while send is in its retry loop
SelectTickAnytime ==
    /\ pc \in {"select", "attempt"}
    /\ tickPending
    /\ tickPending' = FALSE
    /\ IF pc = "select" /\ Len(batches) > 0
       THEN CallSend("tick", NoEntry)
       ELSE UNCHANGED consumerVars
    /\ UNCHANGED <<cancelled, tickerStopped, producerVars>>
    /\ UNCHANGED <<startupVars, encoderVars, sliceVars, traceVars>>

\* case <-tick, lines 82-86
SelectTick ==
    /\ pc = "select"
    /\ tickPending
    /\ tickPending' = FALSE
    /\ IF Len(batches) > 0
       THEN CallSend("tick", NoEntry)
       ELSE /\ batches' = <<>>
            /\ UNCHANGED <<pc, branch, entry, batchSize, i, errs, slept, bufRead, sendRes, sent>>
    /\ UNCHANGED <<cancelled, tickerStopped, producerVars>>
    /\ UNCHANGED <<startupVars, encoderVars, sliceVars, traceVars>>

\* faulty variant: the case leaves the select, not the loop, when the batch is empty
SelectDoneBreaks ==
    /\ pc = "select"
    /\ cancelled
    /\ IF Len(batches) > 0
       THEN CallSend("ctx", NoEntry)
       ELSE UNCHANGED consumerVars
    /\ UNCHANGED <<envVars, producerVars>>
    /\ UNCHANGED <<startupVars, encoderVars, sliceVars, traceVars>>

\* faulty variant: the case calls send whether the batch is empty or not
SelectDoneAlwaysSends ==
    /\ pc = "select"
    /\ cancelled
    /\ CallSend("ctx", NoEntry)
    /\ UNCHANGED <<envVars, producerVars>>
    /\ UNCHANGED <<startupVars, encoderVars, sliceVars, traceVars>>

\* case <-ctx.Done(), lines 87-91
SelectDone ==
    /\ pc = "select"
    /\ cancelled
    /\ IF Len(batches) > 0
       THEN CallSend("ctx", NoEntry)
       ELSE /\ pc' = "done"
            /\ UNCHANGED <<branch, entry, batches, batchSize, i, errs, slept, bufRead, sendRes, sent>>
    /\ UNCHANGED <<envVars, producerVars>>
    /\ UNCHANGED <<startupVars, encoderVars, sliceVars, traceVars>>

\* faulty variant: entries are received after the consumer has returned
SelectEntryAfterReturn ==
    /\ pc \in {"select", "done"}
    /\ in # <<>>
    /\ in' = Tail(in)
    /\ LET e == Head(in)
       IN IF pc = "select" /\ MustFlushFirst(e)
          THEN CallSend("entry", e)
          ELSE /\ batches' = Append(batches, e)
               /\ batchSize' = batchSize + e.len
               /\ UNCHANGED <<pc, branch, entry, i, errs, slept, bufRead, sendRes, sent>>
    /\ UNCHANGED <<ret, enqueued, envVars>>
    /\ UNCHANGED <<startupVars, encoderVars, sliceVars, traceVars>>

\* case entry := <-in, lines 92-100
SelectEntry ==
    /\ pc = "select"
    /\ in # <<>>
    /\ in' = Tail(in)
    /\ LET e == Head(in)
       IN IF MustFlushFirst(e)
          THEN CallSend("entry", e)
          ELSE /\ batches' = Append(batches, e)
               /\ batchSize' = batchSize + e.len
               /\ UNCHANGED <<pc, branch, entry, i, errs, slept, bufRead, sendRes, sent>>
    /\ UNCHANGED <<ret, enqueued, envVars>>
    /\ UNCHANGED <<startupVars, encoderVars, sliceVars, traceVars>>

----------------------------------------------------------------------------
(* The specification: the pipeline from the moment the consumer goroutine  *)
(* is launched (line 70) on the channel, the context and ticker.C; the     *)
(* ticker may deliver ticks until the deferred ticker.Stop() of line 69    *)
(* runs.                                                                   *)

Init ==
    /\ in = <<>>
    /\ ret = NoRet
    /\ cancelled = FALSE
    /\ tickPending = FALSE
    /\ tickerStopped = FALSE
    /\ pc = "select"
    /\ branch = "none"
    /\ entry = NoEntry
    /\ batches = <<>>
    /\ batchSize = 0
    /\ i = 0
    /\ errs = <<>>
    /\ slept = <<>>
    /\ bufRead = FALSE
    /\ sendRes = NoSend
    /\ enqueued = <<>>
    /\ sent = <<>>
    /\ once = [done |-> TRUE, m |-> 0]
    /\ callers = [g \in Callers |-> NotCalling]
    /\ created = [queues |-> 1, consumers |-> 1, loggers |-> 1]
    /\ calls = [total |-> 0, initDatadog |-> 0]
    /\ rawBatch = <<>>
    /\ encoded = NotEncoded
    /\ SlicesIdle
    /\ TraceIdle

Next ==
    \/ \E b \in Payloads : Write(b)
    \/ Cancel
    \/ TickerFire
    \/ TickerStop
    \/ SelectTick
    \/ SelectDone
    \/ SelectEntry
    \/ \E r \in Responses : Attempt(r)
    \/ AfterSend

Spec == Init /\ [][Next]_vars

\* The pipeline under the scheduling Go provides: a goroutine that can run
\* does run, so send's loop and the return from send go on (client.Do ends
\* by the client's timeout at the latest); and select picks among its ready
\* cases at random, so the case <-ctx.Done(), ready at every select once ctx
\* is cancelled, is not passed over for ever.
FairSpec ==
    /\ Spec
    /\ WF_vars(\E r \in Responses : Attempt(r))
    /\ WF_vars(AfterSend)
    /\ SF_vars(SelectDone)

----------------------------------------------------------------------------
(* The start of the pipeline: InitDatadog (src/datadog.go 64-72), Init and *)
(* Log (src/log.go 60-65), all through the one sync.Once of src/log.go 29. *)
(* once.Do(f) is: if done is not set, lock the mutex; if done is still not *)
(* set, run f, set done; unlock. The mutex is not reentrant.               *)

\* a goroutine calls InitDatadog, Init or Log
BeginCall(g, f) ==
    /\ callers[g].pc \in {"idle", "returned"}
    /\ calls.total < MaxCalls
    /\ callers' = [callers EXCEPT ![g] = [fn |-> f, pc |-> "Do"]]
    /\ calls' = [total |-> calls.total + 1,
                 initDatadog |-> calls.initDatadog + (IF f = "InitDatadog" THEN 1 ELSE 0)]
    /\ UNCHANGED <<once, created, encoderVars, sliceVars, traceVars, producerVars, envVars, consumerVars>>

\* once.Do: the check of done without the lock
OnceDo(g) ==
    /\ callers[g].pc = "Do"
    /\ callers' = [callers EXCEPT ![g].pc = IF once.done THEN "returned" ELSE "doSlow"]
    /\ UNCHANGED <<once, created, calls, encoderVars, sliceVars, traceVars, producerVars, envVars, consumerVars>>

\* faulty variant: the slow path does not check done again
OnceLockNoRecheck(g) ==
    /\ callers[g].pc = "doSlow"
    /\ once.m = 0
    /\ once' = [once EXCEPT !.m = g]
    /\ callers' = [callers EXCEPT ![g].pc = "f"]
    /\ UNCHANGED <<created, calls, encoderVars, sliceVars, traceVars, producerVars, envVars, consumerVars>>

\* once.Do, the slow path: the mutex is taken, done is checked again
OnceLock(g) ==
    /\ callers[g].pc = "doSlow"
    /\ once.m = 0
    /\ once' = [once EXCEPT !.m = g]
    /\ callers' = [callers EXCEPT ![g].pc = IF once.done THEN "unlock" ELSE "f"]
    /\ UNCHANGED <<created, calls, encoderVars, sliceVars, traceVars, producerVars, envVars, consumerVars>>

\* the function given to once.Do runs, with the mutex held.
\* Log and Init: initEager makes the logger.
\* InitDatadog: the channel is made (line 66); Init (line 67) calls once.Do
\* again: done is not set yet, so it goes for the mutex its own goroutine
\* holds, and waits there. Were done set, lines 68-70 would follow and launch
\* the consumer.
RunOnceBody(g) ==
    /\ callers[g].pc = "f"
    /\ IF callers[g].fn = "InitDatadog"
       THEN IF once.done
            THEN /\ created' = [created EXCEPT !.queues = @ + 1, !.consumers = @ + 1]
                 /\ callers' = [callers EXCEPT ![g].pc = "unlock"]
                 /\ pc' = "select"
            ELSE /\ created' = [created EXCEPT !.queues = @ + 1]
                 /\ callers' = [callers EXCEPT ![g].pc = "blocked"]
                 /\ UNCHANGED pc
       ELSE /\ created' = [created EXCEPT !.loggers = @ + 1]
            /\ callers' = [callers EXCEPT ![g].pc = "unlock"]
            /\ UNCHANGED pc
    /\ UNCHANGED <<branch, entry, batches, batchSize, i, errs, slept, bufRead, sendRes, sent>>
    /\ UNCHANGED <<once, calls, encoderVars, sliceVars, traceVars, producerVars, envVars>>

\* the deferred calls of the slow path: done is set if f ran, the mutex is released
OnceUnlock(g) ==
    /\ callers[g].pc = "unlock"
    /\ once' = [done |-> TRUE, m |-> 0]
    /\ callers' = [callers EXCEPT ![g].pc = "returned"]
    /\ UNCHANGED <<created, calls, encoderVars, sliceVars, traceVars, producerVars, envVars, consumerVars>>

\* the process before any call: nothing is made, the consumer does not run
NotStarted ==
    /\ in = <<>>
    /\ ret = NoRet
    /\ cancelled = FALSE
    /\ tickPending = FALSE
    /\ tickerStopped = FALSE
    /\ pc = "not started"
    /\ branch = "none"
    /\ entry = NoEntry
    /\ batches = <<>>
    /\ batchSize = 0
    /\ i = 0
    /\ errs = <<>>
    /\ slept = <<>>
    /\ bufRead = FALSE
    /\ sendRes = NoSend
    /\ enqueued = <<>>
    /\ sent = <<>>
    /\ once = [done |-> FALSE, m |-> 0]
    /\ callers = [g \in Callers |-> NotCalling]
    /\ created = [queues |-> 0, consumers |-> 0, loggers |-> 0]
    /\ calls = [total |-> 0, initDatadog |-> 0]

InitStartup ==
    /\ NotStarted
    /\ rawBatch = <<>>
    /\ encoded = NotEncoded
    /\ SlicesIdle
    /\ TraceIdle

\* a step inside once.Do
OnceStep ==
    \E g \in Callers : OnceDo(g) \/ OnceLock(g) \/ RunOnceBody(g) \/ OnceUnlock(g)

NextStartup ==
    \/ \E g \in Callers, f \in InitFunctions : BeginCall(g, f)
    \/ \E g \in Callers : OnceDo(g)
    \/ \E g \in Callers : OnceLock(g)
    \/ \E g \in Callers : RunOnceBody(g)
    \/ \E g \in Callers : OnceUnlock(g)

SpecStartup == InitStartup /\ [][NextStartup]_vars

----------------------------------------------------------------------------
(* send's encoding of a batch: json.NewEncoder(buf).Encode(batch), line 34, *)
(* with batch a []json.RawMessage. Entries are sequences of bytes, each     *)
(* byte a one-character string. The encoder writes "[", the elements       *)
(* separated by ",", "]" and a newline. For an element of type             *)
(* json.RawMessage it takes the bytes MarshalJSON returns (the entry's     *)
(* own), checks them with its scanner and copies them compacted: white     *)
(* space outside strings is dropped and, as Encode escapes HTML by         *)
(* default, a "<" inside a string is written as the six bytes < (so  *)
(* are ">" and "&", as > and &).                                 *)
(* If the scanner rejects an entry, Encode returns an error and writes     *)
(* nothing.                                                                *)

Whitespace == {" ", "\n", "\t", "\r"}

\* the object {"a":1}, byte by byte
ObjectA == <<"{", "\"", "a", "\"", ":", "1", "}">>

\* Entries as Write may be given them: the object alone; with the newline
\* slog's JSON handler ends every record with; with a space after the colon;
\* with "<", and with a space, inside a string; a bare number; a truncated
\* object; no bytes at all.
RawMessages ==
    { ObjectA,
      ObjectA \o <<"\n">>,
      <<"{", "\"", "a", "\"", ":", " ", "1", "}">>,
      <<"{", "\"", "a", "\"", ":", "\"", "<", "\"", "}">>,
      <<"{", "\"", "a", "\"", ":", "\"", " ", "\"", "}">>,
      <<"1">>,
      <<"{", "\"", "a", "\"">>,
      <<>> }

RawBatches == UNION {[1..n -> RawMessages] : n \in 0..MaxBatchLen}

\* the encoder's scanner, reduced to objects, strings and the digit 1
RECURSIVE ScanFrom(_, _, _, _)
ScanFrom(m, inStr, depth, seen) ==
    IF m = <<>> THEN ~inStr /\ depth = 0 /\ seen
    ELSE LET c == Head(m)
         IN IF c = "\"" THEN ScanFrom(Tail(m), ~inStr, depth, TRUE)
            ELSE IF inStr THEN ScanFrom(Tail(m), TRUE, depth, seen)
            ELSE IF c \in Whitespace THEN ScanFrom(Tail(m), FALSE, depth, seen)
            ELSE IF c = "{" THEN ScanFrom(Tail(m), FALSE, depth + 1, TRUE)
            ELSE IF c = "}" THEN depth > 0 /\ ScanFrom(Tail(m), FALSE, depth - 1, TRUE)
            ELSE c \in {":", ",", "1"} /\ ScanFrom(Tail(m), FALSE, depth, TRUE)

ValidJSON(m) == ScanFrom(m, FALSE, 0, FALSE)

\* the compacting copy
RECURSIVE CompactFrom(_, _)
CompactFrom(m, inStr) ==
    IF m = <<>> THEN <<>>
    ELSE LET c == Head(m)
         IN IF c = "\"" THEN <<c>> \o CompactFrom(Tail(m), ~inStr)
            ELSE IF inStr /\ c = "<"
                 THEN <<"\\", "u", "0", "0", "3", "c">> \o CompactFrom(Tail(m), TRUE)
            ELSE IF ~inStr /\ c \in Whitespace THEN CompactFrom(Tail(m), FALSE)
            ELSE <<c>> \o CompactFrom(Tail(m), inStr)

\* faulty variant: the entry's bytes are copied as they are
CompactVerbatim(m) == m

\* what the encoder writes for one entry
Compact(m) == CompactFrom(m, FALSE)

RECURSIVE JoinElements(_)
JoinElements(batch) ==
    IF batch = <<>> THEN <<>>
    ELSE Compact(Head(batch))
           \o (IF Tail(batch) = <<>> THEN <<>> ELSE <<",">> \o JoinElements(Tail(batch)))

\* Encode(batch): the error it returns and the bytes it writes to buf
EncodeBatch(batch) ==
    IF \E k \in 1..Len(batch) : ~ValidJSON(batch[k])
    THEN [err |-> "EncodingFailure", body |-> <<>>]
    ELSE [err |-> "nil", body |-> <<"[">> \o JoinElements(batch) \o <<"]", "\n">>]

\* lines 32-36 of send on the batch rawBatch
Encode ==
    /\ encoded = NotEncoded
    /\ encoded' = EncodeBatch(rawBatch)
    /\ UNCHANGED <<rawBatch, sliceVars, traceVars>>
    /\ UNCHANGED <<startupVars, producerVars, envVars, consumerVars>>

InitEncoder ==
    /\ NotStarted
    /\ rawBatch \in RawBatches
    /\ encoded = NotEncoded
    /\ SlicesIdle
    /\ TraceIdle

NextEncoder == Encode

SpecEncoder == InitEncoder /\ [][NextEncoder]_vars

----------------------------------------------------------------------------
(* The bytes of an entry from Write to send. Write (src/datadog.go 111)    *)
(* puts json.RawMessage(b) on the channel: a conversion of the slice, which *)
(* shares the caller's buffer. The caller is slog's JSON handler (initEager, *)
(* src/log.go 78), which builds each record in a pooled buffer and uses the *)
(* buffer again for a later record once Write has returned. send reads the *)
(* bytes when it encodes the batch (line 34).                              *)

\* the records the callers build in their buffers: two of RawMessages
Records == {ObjectA \o <<"\n">>, <<"{", "\"", "a", "\"", ":", " ", "1", "}">>}

\* the caller builds a record in one of its buffers
FillBuffer(b, r) ==
    /\ callerBufs[b] # r
    /\ callerBufs' = [callerBufs EXCEPT ![b] = r]
    /\ UNCHANGED <<held, delivered, encoderVars, traceVars>>
    /\ UNCHANGED <<startupVars, producerVars, envVars, consumerVars>>

\* Write(b) accepts the slice (lines 106-112): the entry is the slice, not a copy
WriteSlice(b) ==
    /\ callerBufs[b] # <<>>
    /\ Len(held) + Len(delivered) < MaxHeld
    /\ held' = Append(held, [buf |-> b, written |-> callerBufs[b]])
    /\ UNCHANGED <<callerBufs, delivered, encoderVars, traceVars>>
    /\ UNCHANGED <<startupVars, producerVars, envVars, consumerVars>>

\* the bytes an entry's slice gives when read
BytesOf(e) == callerBufs[e.buf]

\* send encodes the entries received (lines 32-36), reading each through its slice
EncodeHeld ==
    /\ held # <<>>
    /\ rawBatch' = [k \in 1..Len(held) |-> BytesOf(held[k])]
    /\ encoded' = EncodeBatch(rawBatch')
    /\ delivered' = delivered \o
          [k \in 1..Len(held) |-> [bytes |-> BytesOf(held[k]), written |-> held[k].written]]
    /\ held' = <<>>
    /\ UNCHANGED <<callerBufs, traceVars>>
    /\ UNCHANGED <<startupVars, producerVars, envVars, consumerVars>>

InitSlices ==
    /\ NotStarted
    /\ rawBatch = <<>>
    /\ encoded = NotEncoded
    /\ SlicesIdle
    /\ TraceIdle

NextSlices ==
    \/ \E b \in Buffers, r \in Records : FillBuffer(b, r)
    \/ \E b \in Buffers : WriteSlice(b)
    \/ EncodeHeld

SpecSlices == InitSlices /\ [][NextSlices]_vars

----------------------------------------------------------------------------
(* The trace package: src/datadog.go 120-277. One request at a time: its   *)
(* context (reqCtx) and its headers (hdr). An identifier is a number: 0 is *)
(* the empty string, 1..NumPeerIDs come from outside, and the n-th         *)
(* identifier newuuid generates is NumPeerIDs + n, so that it differs from *)
(* every identifier seen before. A time is a number of ticks; an           *)
(* X-Trace-Start header is the empty string ("missing"), an unparsable     *)
(* string ("garbage") or an RFC 3339 time, which has whole seconds.        *)

\* var thisServiceName = enve.StringOr("RUNPOD_SERVICE_NAME", "unknown"), line 186
thisServiceName == "unknown"

\* identifiers that arrive in headers or in a Trace made by the application
PeerIDs == 0..NumPeerIDs

\* (TraceSource, RequestSource) of such a Trace or of such headers
PeerSources == {<<"", "">>, <<"svcA", "svcB">>, <<"svcA", "">>}

\* a Trace the application puts in a context or passes to SaveToHeader
Traces ==
    {[TraceID |-> a, RequestID |-> b, TraceSource |-> ss[1], RequestSource |-> ss[2],
      TraceStart |-> c, RequestStart |-> c] :
        a \in PeerIDs, b \in PeerIDs, ss \in PeerSources, c \in {0, TicksPerSecond + 1}}

\* the values of an X-Trace-Start header: none, not a time, a time up to one
\* second beyond the last reading of the clock
StartValues ==
    {NoTime, [kind |-> "garbage", sec |-> 0]} \cup
    {[kind |-> "time", sec |-> n] : n \in 0..((MaxClock \div TicksPerSecond) + 1)}

\* the headers of a request that arrives
IncomingHeaders ==
    {[k \in CanonicalKeys |->
        CASE k = "X-Trace-Id" -> a
          [] k = "X-Request-Id" -> b
          [] k = "X-Trace-Start" -> c
          [] k = "X-Trace-Source" -> ss[1]
          [] k = "X-Request-Source" -> ss[2]] :
        a \in PeerIDs, b \in PeerIDs, c \in StartValues,
        ss \in {<<"", "">>, <<"svcA", "svcB">>}}

\* textproto.CanonicalMIMEHeaderKey for the keys of this package: the first
\* letter of each word in upper case, the others in lower case
Canonical(k) ==
    CASE k = "X-Trace-ID" -> "X-Trace-Id"
      [] k = "X-Request-ID" -> "X-Request-Id"
      [] OTHER -> k

\* faulty variant: the key is stored as it is written
HSetVerbatim(h, k, v) == [x \in (DOMAIN h) \cup {k} |-> IF x = k THEN v ELSE h[x]]

\* http.Header.Set
HSet(h, k, v) ==
    [x \in (DOMAIN h) \cup {Canonical(k)} |-> IF x = Canonical(k) THEN v ELSE h[x]]

\* http.Header.Get
HGet(h, k) == h[Canonical(k)]

\* t.Format(time.RFC3339): the fraction of the second is dropped
Format(t) == [kind |-> "time", sec |-> t \div TicksPerSecond]

\* time.Parse(time.RFC3339, s)
Parse(v) ==
    IF v.kind = "time"
    THEN [err |-> FALSE, t |-> v.sec * TicksPerSecond]
    ELSE [err |-> TRUE, t |-> 0]

\* newuuid, lines 236-242 (uuid.NewV7): the n-th identifier generated
NewUuid(n) == NumPeerIDs + n

\* New, lines 189-199
New(now, n) ==
    [TraceID |-> NewUuid(n + 1), RequestID |-> NewUuid(n + 2),
     TraceSource |-> thisServiceName, RequestSource |-> thisServiceName,
     TraceStart |-> now, RequestStart |-> now]

\* SaveToHeader, lines 227-233
SaveToHeader(h, t) ==
    LET h1 == HSet(h, "X-Trace-ID", t.TraceID)
        h2 == HSet(h1, "X-Request-ID", t.RequestID)
        h3 == HSet(h2, "X-Trace-Start", Format(t.TraceStart))
        h4 == HSet(h3, "X-Trace-Source", t.TraceSource)
    IN HSet(h4, "X-Request-Source", t.RequestSource)

\* faulty variant: the time of the header is taken as it is parsed
TraceStartUnchecked(h, now) ==
    LET parsed == Parse(HGet(h, "X-Trace-Start"))
    IN IF parsed.err THEN now ELSE parsed.t

\* FromHeaderOrNew, lines 246-257: the start of the trace (Parse, After)
TraceStartFrom(h, now) ==
    LET parsed == Parse(HGet(h, "X-Trace-Start"))
        traceStart == IF parsed.err THEN now ELSE parsed.t
    IN IF traceStart > now THEN now ELSE traceStart

\* how many identifiers FromHeaderOrNew generates for h
Missing(h) ==
    (IF HGet(h, "X-Trace-ID") = 0 THEN 1 ELSE 0)
        + (IF HGet(h, "X-Request-ID") = 0 THEN 1 ELSE 0)

\* FromHeaderOrNew, lines 245-267; orelse, lines 270-276
FromHeaderOrNew(h, now, n) ==
    LET traceID == IF HGet(h, "X-Trace-ID") = 0 THEN NewUuid(n + 1) ELSE HGet(h, "X-Trace-ID")
        m == IF HGet(h, "X-Trace-ID") = 0 THEN n + 1 ELSE n
        requestID ==
            IF HGet(h, "X-Request-ID") = 0 THEN NewUuid(m + 1) ELSE HGet(h, "X-Request-ID")
    IN [TraceID |-> traceID, RequestID |-> requestID,
        TraceStart |-> TraceStartFrom(h, now), RequestStart |-> now,
        TraceSource |-> HGet(h, "X-Trace-Source"),
        RequestSource |-> HGet(h, "X-Request-Source")]

\* faulty variant: the sub-request keeps the request ID of the context
KeepRequestID(t, id) == t

\* ClientMiddleware, line 163: t.RequestID = newuuid()
RenewRequestID(t, id) == [t EXCEPT !.RequestID = id]

\* time passes
Tick ==
    /\ clock < MaxClock
    /\ clock' = clock + 1
    /\ UNCHANGED <<uuids, reqCtx, hdr, saved, got>>
    /\ UNCHANGED <<sliceVars, encoderVars, startupVars, producerVars, envVars, consumerVars>>

\* the next request: a background context, no headers
NewRequest ==
    /\ ~TraceIdleRequest
    /\ reqCtx' = NoCtxTrace
    /\ hdr' = NoHeaders
    /\ saved' = NoCtxTrace
    /\ got' = NoCtxTrace
    /\ UNCHANGED <<clock, uuids>>
    /\ UNCHANGED <<sliceVars, encoderVars, startupVars, producerVars, envVars, consumerVars>>

\* the application makes the request's context with CtxWith(ctx, t), lines 204-206
SetContext(t) ==
    /\ TraceIdleRequest
    /\ reqCtx' = [ok |-> TRUE, t |-> t]
    /\ UNCHANGED <<clock, uuids, hdr, saved, got>>
    /\ UNCHANGED <<sliceVars, encoderVars, startupVars, producerVars, envVars, consumerVars>>

\* a request arrives from outside with headers h
ReceiveHeaders(h) ==
    /\ TraceIdleRequest
    /\ h # NoHeaders
    /\ hdr' = h
    /\ UNCHANGED <<clock, uuids, reqCtx, saved, got>>
    /\ UNCHANGED <<sliceVars, encoderVars, startupVars, producerVars, envVars, consumerVars>>

\* the application calls SaveToHeader(r.Header, t) on a request without a
\* Trace in its context
CallSaveToHeader(t) ==
    /\ ~reqCtx.ok
    /\ hdr' = SaveToHeader(hdr, t)
    /\ saved' = [ok |-> TRUE, t |-> t]
    /\ got' = NoCtxTrace
    /\ UNCHANGED <<clock, uuids, reqCtx>>
    /\ UNCHANGED <<sliceVars, encoderVars, startupVars, producerVars, envVars, consumerVars>>

\* the round tripper ClientMiddleware returns, lines 157-168, up to the call
\* of the wrapped round tripper
ClientMiddleware ==
    /\ uuids + 2 <= MaxUuids
    /\ LET t == IF ~reqCtx.ok
                THEN New(clock, uuids)
                ELSE RenewRequestID(reqCtx.t, NewUuid(uuids + 1))
       IN /\ hdr' = SaveToHeader(hdr, t)
          /\ reqCtx' = [ok |-> TRUE, t |-> t]
          /\ saved' = [ok |-> TRUE, t |-> t]
    /\ uuids' = uuids + (IF reqCtx.ok THEN 1 ELSE 2)
    /\ got' = NoCtxTrace
    /\ UNCHANGED clock
    /\ UNCHANGED <<sliceVars, encoderVars, startupVars, producerVars, envVars, consumerVars>>

\* the handler ServerMiddleware returns, lines 179-183, up to the call of the
\* next handler
ServerMiddleware ==
    /\ uuids + 2 <= MaxUuids
    /\ LET t == FromHeaderOrNew(hdr, clock, uuids)
       IN /\ reqCtx' = [ok |-> TRUE, t |-> t]
          /\ got' = [ok |-> TRUE, t |-> t]
    /\ uuids' = uuids + Missing(hdr)
    /\ UNCHANGED <<clock, hdr, saved>>
    /\ UNCHANGED <<sliceVars, encoderVars, startupVars, producerVars, envVars, consumerVars>>

InitTrace ==
    /\ NotStarted
    /\ rawBatch = <<>>
    /\ encoded = NotEncoded
    /\ SlicesIdle
    /\ TraceIdle

NextTrace ==
    \/ Tick
    \/ NewRequest
    \/ \E t \in Traces : SetContext(t)
    \/ \E h \in IncomingHeaders : ReceiveHeaders(h)
    \/ \E t \in Traces : CallSaveToHeader(t)
    \/ ClientMiddleware
    \/ ServerMiddleware

SpecTrace == InitTrace /\ [][NextTrace]_vars

----------------------------------------------------------------------------
(* The claims. *)

\* C1: the entries of the batches handed to send, concatenated in the order of
\* the calls, are a prefix of the entries enqueued, in enqueue order; as the
\* enqueued entries are pairwise distinct, none is reordered or sent twice.
C1_SentIsPrefixOfEnqueued == IsPrefix(Flatten(SentBatches), enqueued)

\* two calls of send at least, the first with two entries that queued up
C1_Witness ==
    /\ Len(sent) >= 2
    /\ Len(sent[1].batch) >= 2
    /\ Len(sent[2].batch) >= 1

\* C2 (as claimed): once the consumer has returned, every entry Write has
\* enqueued has been part of a batch handed to send.
C2_NoEntryDropped ==
    pc = "done" =>
        \A k \in 1..Len(enqueued) :
            \E j \in 1..Len(Flatten(SentBatches)) : Flatten(SentBatches)[j] = enqueued[k]

\* C3: the batch never holds more than maxLogsPerBatch entries and its entries
\* total less than maxContentSize bytes; the same is true of every batch that
\* send was given.
C3_BatchWithinCeilings ==
    /\ Len(batches) <= maxLogsPerBatch
    /\ SumLen(batches) < maxContentSize
    /\ \A k \in 1..Len(sent) :
          /\ Len(sent[k].batch) <= maxLogsPerBatch
          /\ SumLen(sent[k].batch) < maxContentSize

\* an entry that would have taken the batch to the byte ceiling made the
\* consumer flush a batch one byte under it
C3_Witness ==
    \E k \in 1..Len(sent) :
        /\ sent[k].by = "entry"
        /\ Len(sent[k].batch) < maxLogsPerBatch
        /\ SumLen(sent[k].batch) = maxContentSize - 1

\* C4: a Write of an entry of admissible size on a full channel returns
\* QueueFull with 0 bytes accepted and leaves the channel as it was.
C4_FullQueueRejects ==
    [][\A b \in Payloads :
          (Write(b) /\ b.len <= maxLogSize /\ Len(in) = QueueCap)
              => (ret'.err = "QueueFull" /\ ret'.n = 0 /\ in' = in)]_vars

\* a Write has returned QueueFull and the channel is full
C4_Witness == ret.err = "QueueFull" /\ ret.len <= maxLogSize /\ Len(in) = QueueCap

\* C5: the channel never holds more than its capacity.
C5_QueueBounded == Len(in) <= QueueCap

\* the channel is full while the consumer is held up in send's retry loop
C5_Witness == Len(in) = QueueCap /\ pc = "attempt" /\ i >= 1

\* C6: Write never blocks: whatever the consumer is doing, and whatever the
\* channel holds, every Write call can complete at once.
C6_WriteNeverBlocks ==
    Len(enqueued) < MaxWrites => \A b \in Payloads : ENABLED Write(b)

\* a Write returned (QueueFull) while the consumer was between two attempts
\* of a flush, and more can be written
C6_Witness ==
    /\ pc = "attempt"
    /\ i >= 1
    /\ Len(in) = QueueCap
    /\ ret.err = "QueueFull"
    /\ Len(enqueued) < MaxWrites

\* every entry the pipeline holds or has held
C7_EntriesSeen ==
    {in[k] : k \in 1..Len(in)} \cup {batches[k] : k \in 1..Len(batches)}
        \cup {enqueued[k] : k \in 1..Len(enqueued)}
        \cup {Flatten(SentBatches)[k] : k \in 1..Len(Flatten(SentBatches))}
        \cup (IF pc \in {"attempt", "returned"} /\ branch = "entry" THEN {entry} ELSE {})

\* C7: Write returns EntryTooLarge exactly when the entry is longer than
\* maxLogSize (so not for an entry of maxLogSize bytes), with 0 bytes accepted,
\* and no entry longer than maxLogSize is ever in the channel, in the batch or
\* in a batch given to send.
C7_OversizeRejected ==
    /\ ret # NoRet => (ret.err = "EntryTooLarge" <=> ret.len > maxLogSize)
    /\ ret.err = "EntryTooLarge" => ret.n = 0
    /\ \A e \in C7_EntriesSeen : e.len <= maxLogSize

\* an entry of maxLogSize + 1 bytes was rejected on a full channel, after an
\* entry of exactly maxLogSize bytes went through to send
C7_Witness ==
    /\ ret.err = "EntryTooLarge"
    /\ ret.len = maxLogSize + 1
    /\ Len(in) = QueueCap
    /\ \E k \in 1..Len(sent) : \E j \in 1..Len(sent[k].batch) :
          sent[k].batch[j].len = maxLogSize

\* C8 (as claimed): a non-empty batch never waits indefinitely for a flush:
\* while the consumer waits in its select with a non-empty batch and nothing
\* else to receive (no entry, no shutdown), a tick is waiting on ticker.C or
\* the ticker is still running and will deliver one.
C8_BatchNeverStranded ==
    (pc = "select" /\ batches # <<>> /\ in = <<>> /\ ~cancelled)
        => (tickPending \/ ~tickerStopped)

\* the premise of C9: one-byte entries only, and no flush by a tick or by
\* the shutdown so far
C9_OneByteEntriesInSuccession ==
    /\ \A k \in 1..Len(enqueued) : enqueued[k].len = 1
    /\ \A k \in 1..Len(sent) : sent[k].by = "entry"

\* C9: with one-byte entries enqueued in succession and no tick in between,
\* every flush is of exactly the next maxLogsPerBatch entries (so the first
\* maxLogsPerBatch entries cause no flush and the next one causes exactly one,
\* of all of them); the flush is made before the entry that caused it is put
\* in the batch, and after it the batch holds that entry alone.
C9_FlushOnFull ==
    C9_OneByteEntriesInSuccession =>
        /\ \A k \in 1..Len(sent) :
              sent[k].batch =
                  SubSeq(enqueued, (k - 1) * maxLogsPerBatch + 1, k * maxLogsPerBatch)
        /\ pc \in {"attempt", "returned"} =>
              /\ batches = sent[Len(sent)].batch
              /\ entry = enqueued[Len(sent) * maxLogsPerBatch + 1]
              /\ Received = Len(sent) * maxLogsPerBatch + 1
        /\ pc \in {"select", "done"} =>
              /\ batches = SubSeq(enqueued, Len(sent) * maxLogsPerBatch + 1, Received)
              /\ Len(batches) <= maxLogsPerBatch

\* maxLogsPerBatch + 1 one-byte entries were written: one flush has been made,
\* and the batch holds the last entry alone
C9_Witness ==
    /\ C9_OneByteEntriesInSuccession
    /\ Len(enqueued) = maxLogsPerBatch + 1
    /\ pc = "select"
    /\ Len(sent) = 1
    /\ Len(sent[1].batch) = maxLogsPerBatch
    /\ batches = <<enqueued[maxLogsPerBatch + 1]>>

\* C10: send never makes more than maxRetries attempts; it returns
\* DeliveryFailure exactly when every attempt has failed, and then it has made
\* exactly maxRetries attempts and carries one error for each of them.
C10_RetryExhaustion ==
    /\ i <= maxRetries
    /\ Len(slept) <= maxRetries
    /\ pc = "attempt" => Len(slept) = i /\ Len(errs) = i /\ i < maxRetries
    /\ (pc = "returned" /\ sendRes.err # "EncodingFailure") =>
          /\ sendRes.attempts = Len(slept)
          /\ sendRes.attempts >= 1
          /\ sendRes.err = "DeliveryFailure" <=> Len(sendRes.errs) = sendRes.attempts
          /\ sendRes.err = "DeliveryFailure" =>
                /\ sendRes.attempts = maxRetries
                /\ Len(sendRes.errs) = maxRetries

\* send has returned DeliveryFailure
C10_Witness == pc = "returned" /\ sendRes.err = "DeliveryFailure"

\* C11 (as claimed): when the destination accepts the k-th attempt of a call
\* of send, after failing the k - 1 attempts before it, send returns no error
\* right after that attempt, having made exactly k attempts.
C11_SuccessOnKthAttempt ==
    [][\A r \in Responses :
          (Attempt(r) /\ ~AttemptFailed(r))
              => /\ Len(errs) = i
                 /\ pc' = "returned"
                 /\ sendRes'.err = "nil"
                 /\ sendRes'.attempts = i + 1]_vars

RECURSIVE SumSeq(_)
SumSeq(s) == IF s = <<>> THEN 0 ELSE Head(s) + SumSeq(Tail(s))

\* C12: send sleeps once before each attempt, 10 ms times the 0-based index of
\* the attempt (0, 10, 20, 30, 40 ms), so the first attempt is not delayed, and
\* a call that exhausts its attempts has slept 100 ms in all.
C12_LinearBackoff ==
    /\ \A k \in 1..Len(slept) : slept[k] = 10 * (k - 1)
    /\ pc = "attempt" => Len(slept) = i
    /\ (pc = "returned" /\ sendRes.err # "EncodingFailure") => Len(slept) = sendRes.attempts
    /\ (pc = "returned" /\ sendRes.err = "DeliveryFailure") =>
          /\ slept = <<0, 10, 20, 30, 40>>
          /\ SumSeq(slept) = 100

\* send has slept before each of five failed attempts, last for 40 ms
C12_Witness ==
    /\ pc = "returned"
    /\ sendRes.err = "DeliveryFailure"
    /\ Len(slept) = 5
    /\ slept[5] = 40

\* C13 (as claimed): with one entry enqueued and no tick, once the context is
\* cancelled and the consumer has returned, send has been called exactly once,
\* with a batch that holds the entry; wherever the entry was when the context
\* was cancelled.
C13_ShutdownFlushesTheEntry ==
    (/\ pc = "done"
     /\ Len(enqueued) = 1
     /\ ~tickPending
     /\ \A k \in 1..Len(sent) : sent[k].by # "tick")
        => (Len(sent) = 1 /\ sent[1].batch = enqueued)

\* C14 (as claimed): once InitDatadog has been called and no call can take a
\* further step, exactly one channel and exactly one consumer goroutine have
\* been made; and there are never two of either.
C14_StartsExactlyOnce ==
    /\ created.queues <= 1
    /\ created.consumers <= 1
    /\ (calls.initDatadog >= 1 /\ ~ENABLED OnceStep) =>
          (created.queues = 1 /\ created.consumers = 1)

\* what the consumer holds of the entries it has received and not yet
\* passed to send
C15_InHand ==
    IF pc \in {"attempt", "returned"}
    THEN (IF branch = "entry" THEN <<entry>> ELSE <<>>)
    ELSE IF pc = "done" /\ sent # <<>> /\ sent[Len(sent)].by = "ctx" THEN <<>> ELSE batches

\* C15: delivery is at most once. The entries passed to send (whether the
\* delivery succeeded or failed), then the entries in the consumer's hands,
\* then the entries on the channel make up the entries enqueued, each once and
\* in order: no entry of a batch passed to send, failed or not, is on the
\* channel again, in the batch again, or in a later batch.
C15_AtMostOnce == Flatten(SentBatches) \o C15_InHand \o in = enqueued

\* a delivery has failed after an earlier call of send, and entries are waiting
C15_Witness ==
    /\ pc = "returned"
    /\ sendRes.err = "DeliveryFailure"
    /\ Len(sent) >= 2
    /\ sent[1].batch # <<>>
    /\ sent[Len(sent)].batch # <<>>
    /\ in # <<>>

\* C16: a Write call either returns (len(b), nil) and has put exactly its
\* entry on the channel, behind every entry that was there, or returns
\* (0, error) and has left the channel as it was; nothing else puts an entry on
\* the channel.
C16_WriteResult ==
    [][(ret' # ret \/ enqueued' # enqueued \/ Len(in') > Len(in)) =>
          \/ /\ ret'.err = "nil"
             /\ ret'.n = ret'.len
             /\ Len(in') = Len(in) + 1
             /\ SubSeq(in', 1, Len(in)) = in
             /\ in'[Len(in')].len = ret'.len
             /\ enqueued' = Append(enqueued, in'[Len(in')])
          \/ /\ ret'.err \in {"EntryTooLarge", "QueueFull"}
             /\ ret'.n = 0
             /\ in' = in
             /\ enqueued' = enqueued]_vars

\* a Write has returned (len(b), nil) and its entry is behind an older one of
\* another length
C16_Witness ==
    /\ ret.err = "nil"
    /\ ret.n = ret.len
    /\ Len(in) = 2
    /\ in[2].id = Len(enqueued)
    /\ in[2].len = ret.len
    /\ in[1].len # in[2].len

\* the elements of a JSON array given byte by byte with its closing newline:
\* the bytes between the brackets, cut at the commas outside strings and objects
RECURSIVE C17_SplitTop(_, _, _, _)
C17_SplitTop(rest, cur, inStr, depth) ==
    IF rest = <<>> THEN <<cur>>
    ELSE LET c == Head(rest)
         IN IF ~inStr /\ depth = 0 /\ c = ","
            THEN <<cur>> \o C17_SplitTop(Tail(rest), <<>>, FALSE, 0)
            ELSE C17_SplitTop(Tail(rest), Append(cur, c),
                              IF c = "\"" THEN ~inStr ELSE inStr,
                              IF inStr THEN depth
                              ELSE IF c = "{" THEN depth + 1
                              ELSE IF c = "}" THEN depth - 1
                              ELSE depth)

C17_IsArray(body) ==
    /\ Len(body) >= 3
    /\ body[1] = "["
    /\ body[Len(body) - 1] = "]"
    /\ body[Len(body)] = "\n"

C17_Elements(body) ==
    IF Len(body) = 3 THEN <<>> ELSE C17_SplitTop(SubSeq(body, 2, Len(body) - 2), <<>>, FALSE, 0)

\* the entry has white space outside its strings, or a "<"
RECURSIVE C17_HasLooseByte(_, _)
C17_HasLooseByte(m, inStr) ==
    /\ m # <<>>
    /\ \/ Head(m) = "<"
       \/ ~inStr /\ Head(m) \in Whitespace
       \/ C17_HasLooseByte(Tail(m), IF Head(m) = "\"" THEN ~inStr ELSE inStr)

\* the bytes that are neither white space nor part of "<" or of its escape
C17_OtherBytes(m) ==
    SelectSeq(m, LAMBDA c : c \notin Whitespace \cup {"<", "\\", "u", "0", "3", "c"})

C18_FailureClassification ==
    [][\A r \in Responses :
          Attempt(r) =>
              IF DoResult(r).err \/ DoResult(r).status >= 400
              THEN /\ Len(errs') = Len(errs) + 1
                   /\ ~(pc' = "returned" /\ sendRes'.err = "nil")
              ELSE /\ pc' = "returned"
                   /\ sendRes'.err = "nil"
                   /\ sendRes'.attempts = i + 1
                   /\ errs' = errs
                   /\ sendRes'.errs = errs]_vars

\* send has returned nil on its second attempt, with the one error of the first
C18_Witness ==
    /\ pc = "returned"
    /\ sendRes.err = "nil"
    /\ sendRes.attempts = 2
    /\ Len(sendRes.errs) = 1

C20_ShutdownBranch ==
    /\ [](/\ \A k \in 1..Len(sent) :
               sent[k].by = "ctx" =>
                   (k = Len(sent) /\ sent[k].batch # <<>> /\ sent[k].batch = batches)
          /\ pc = "done" =>
               IF batches = <<>>
               THEN \A k \in 1..Len(sent) : sent[k].by # "ctx"
               ELSE sent # <<>> /\ sent[Len(sent)].by = "ctx")
    /\ [][(pc = "done" \/ branch = "ctx") =>
             /\ Len(in') >= Len(in)
             /\ tickPending => tickPending'
             /\ sent' = sent
             /\ batches' = batches
             /\ pc = "done" => UNCHANGED consumerVars]_vars

\* the consumer has returned after a shutdown flush, leaving a tick and an
\* entry unreceived
C20_Witness ==
    /\ pc = "done"
    /\ sent # <<>>
    /\ sent[Len(sent)].by = "ctx"
    /\ tickPending
    /\ in # <<>>

\* C21: the step that receives a tick passes the whole batch to send, in one
\* call, if the batch is not empty; if it is empty the step calls send not at
\* all and leaves the batch, the running total and the consumer where they were.
C21_TickFlush ==
    [][(tickPending /\ ~tickPending') =>
          IF batches # <<>>
          THEN /\ sent' = Append(sent, [by |-> "tick", batch |-> batches])
               /\ pc' \in {"attempt", "returned"}
               /\ batches' = batches
          ELSE /\ sent' = sent
               /\ batches' = batches
               /\ batchSize' = batchSize
               /\ pc' = pc]_vars

\* a tick has flushed a batch of two entries at least in one call, the batch is
\* empty since, and the next tick is waiting
C21_Witness ==
    /\ pc = "select"
    /\ sent # <<>>
    /\ sent[Len(sent)].by = "tick"
    /\ Len(sent[Len(sent)].batch) >= 2
    /\ batches = <<>>
    /\ tickPending

\* C22 (as claimed): when the consumer comes back from a flush to its select,
\* the batch has been reset, count and byte total: after a flush made by a
\* tick the batch is empty and batchSize is 0; after a flush made for an entry
\* the batch holds that entry alone and batchSize is its length; whatever
\* send returned.
C22_ResetAfterFlush ==
    [][(pc = "returned" /\ pc' = "select") =>
          /\ branch = "tick" => (batches' = <<>> /\ batchSize' = 0)
          /\ branch = "entry" => (batches' = <<entry>> /\ batchSize' = entry.len)]_vars

\* C23 (as claimed): the step that receives an entry calls send exactly when
\* the batch holds maxLogsPerBatch entries already, or the bytes of its
\* entries and the new one together reach maxContentSize; otherwise it appends
\* the entry and calls send not at all.
C23_FlushOnlyAtCeiling ==
    [][(pc = "select" /\ Len(in') < Len(in)) =>
          /\ sent' # sent <=>
                (\/ Len(batches) + 1 > maxLogsPerBatch
                 \/ SumLen(batches) + Head(in).len >= maxContentSize)
          /\ sent' = sent => (batches' = Append(batches, Head(in)) /\ pc' = "select")]_vars

\* C24 (as claimed): whenever the consumer is at its select, batchSize is the
\* sum of the lengths of the entries in the batch.
C24_BatchSizeIsSum == pc = "select" => batchSize = SumLen(batches)

\* C25 (as claimed): send is never called with an empty batch.
C25_NoEmptyBatchSent == \A k \in 1..Len(sent) : sent[k].batch # <<>>

\* C26 (as claimed): every attempt of the retry loop goes out with the whole
\* serialized batch as its body: none is made after an earlier attempt of the
\* same call has read the body.
C26_EveryAttemptCarriesBody == [][(\E r \in Responses : Attempt(r)) => ~bufRead]_vars

\* C27: send returns EncodingFailure exactly for a batch with an entry that is
\* not JSON, and then it has made no attempt, slept not at all and collected
\* no error; a batch that goes to the retry loop has valid entries only; and
\* after the EncodingFailure the consumer discards the batch as after any
\* flush and goes on (or returns, on shutdown).
C27_EncodingFailure ==
    /\ [](/\ (pc = "returned" /\ sendRes.err = "EncodingFailure") =>
               /\ \E k \in 1..Len(batches) : ~batches[k].valid
               /\ sendRes.attempts = 0
               /\ sendRes.errs = <<>>
               /\ i = 0 /\ slept = <<>> /\ errs = <<>> /\ ~bufRead
          /\ (pc = "returned" /\ sendRes.err # "EncodingFailure") =>
               \A k \in 1..Len(batches) : batches[k].valid
          /\ pc = "attempt" => \A k \in 1..Len(batches) : batches[k].valid)
    /\ [][(pc = "returned" /\ sendRes.err = "EncodingFailure" /\ pc' # pc) =>
             /\ pc' = IF branch = "ctx" THEN "done" ELSE "select"
             /\ branch = "tick" => batches' = <<>>
             /\ branch = "entry" => batches' = <<entry>>
             /\ sent' = sent]_vars

\* send has returned EncodingFailure for a batch of two entries, called for a
\* third
C27_Witness ==
    /\ pc = "returned"
    /\ sendRes.err = "EncodingFailure"
    /\ branch = "entry"
    /\ Len(batches) >= 2

\* C28: what the consumer does after send has returned does not depend on
\* what send returned: it drops the batch and is back at its select (or has
\* returned, if the flush was the shutdown's); and at its select it can
\* receive whatever is ready: an entry, a tick, the cancellation.
C28_FailureNotFatal ==
    /\ [][(pc = "returned" /\ pc' # pc) =>
             /\ pc' = IF branch = "ctx" THEN "done" ELSE "select"
             /\ batches' = (CASE branch = "tick" -> <<>>
                              [] branch = "entry" -> <<entry>>
                              [] branch = "ctx" -> batches)
             /\ in' = in
             /\ sent' = sent
             /\ UNCHANGED envVars]_vars
    /\ [](pc = "select" =>
             /\ in # <<>> => ENABLED SelectEntry
             /\ tickPending => ENABLED SelectTick
             /\ cancelled => ENABLED SelectDone)

\* send has returned DeliveryFailure for a tick's flush, after an earlier
\* flush, while an entry and a tick are waiting and ctx is not cancelled
C28_Witness ==
    /\ pc = "returned"
    /\ sendRes.err = "DeliveryFailure"
    /\ branch = "tick"
    /\ Len(sent) >= 2
    /\ in # <<>>
    /\ tickPending
    /\ ~cancelled

\* C29: while send is in its retry loop the consumer receives no entry and no
\* tick and leaves the batch alone: the channel only grows, at its tail, and
\* not beyond its capacity; a Write on the full channel returns an error and
\* accepts nothing.
C29_FlushIsSynchronous ==
    [][pc = "attempt" =>
          /\ IsPrefix(in, in')
          /\ Len(in') <= QueueCap
          /\ tickPending => tickPending'
          /\ batches' = batches
          /\ batchSize' = batchSize
          /\ sent' = sent
          /\ (Len(in) = QueueCap /\ ret' # ret) =>
                (ret'.err \in {"QueueFull", "EntryTooLarge"} /\ ret'.n = 0 /\ in' = in)]_vars

\* send is past its second attempt, the channel has filled up meanwhile, a
\* Write was refused and a tick is waiting
C29_Witness ==
    /\ pc = "attempt"
    /\ i >= 2
    /\ Len(in) = QueueCap
    /\ ret.err = "QueueFull"
    /\ tickPending
    /\ Len(batches) >= 1

\* C30 (as claimed): no call of InitDatadog, Init or Log waits for ever: when
\* no call can take a further step, every call has returned; and when the
\* first call of the process was InitDatadog and it has returned, the logger
\* and the consumer goroutine have been made.
C30_InitDatadogReturns ==
    /\ (~ENABLED OnceStep) => \A g \in Callers : callers[g].pc \in {"idle", "returned"}
    /\ \A g \in Callers :
          (callers[g].fn = "InitDatadog" /\ callers[g].pc = "returned" /\ calls.total = 1)
              => (created.loggers = 1 /\ created.consumers = 1)

\* C31 (as claimed): the bytes send reads for an entry are the bytes the
\* caller's buffer held when Write was called, whatever the caller did with
\* the buffer after Write returned.
C31_EntryImmutable ==
    \A k \in 1..Len(delivered) : delivered[k].bytes = delivered[k].written

\* C32: once the consumer has returned, it stays returned, nothing is taken
\* from the channel and nothing more is passed to send; a Write of an entry
\* within maxLogSize is accepted (n = len(b), nil error, the entry at the
\* tail of the channel) while the channel is below its capacity, and every
\* Write on the full channel is refused (QueueFull, or EntryTooLarge for an
\* oversize entry) and leaves the channel as it was.
C32_WritesAfterShutdown ==
    [][pc = "done" =>
          /\ pc' = "done"
          /\ sent' = sent
          /\ batches' = batches
          /\ IsPrefix(in, in')
          /\ Len(in') <= QueueCap
          /\ enqueued' # enqueued =>
                /\ Len(in) < QueueCap
                /\ in' = Append(in, enqueued'[Len(enqueued')])
                /\ ret'.err = "nil"
                /\ ret'.n = ret'.len
                /\ ret'.len <= maxLogSize
          /\ (enqueued' = enqueued /\ ret' # ret) =>
                /\ in' = in
                /\ ret'.n = 0
                /\ ret'.err = (IF ret'.len > maxLogSize THEN "EntryTooLarge" ELSE "QueueFull")
                /\ ret'.err = "QueueFull" => Len(in) = QueueCap]_vars

\* the consumer has returned after its shutdown flush, the channel has been
\* filled to its capacity since and the last Write was refused as QueueFull
C32_Witness ==
    /\ pc = "done"
    /\ sent # <<>>
    /\ sent[Len(sent)].by = "ctx"
    /\ Len(in) = QueueCap
    /\ Len(enqueued) = Len(Flatten(SentBatches)) + QueueCap
    /\ ret.err = "QueueFull"

\* C33: the function Log and Init give to once.Do runs at most once, whatever
\* the goroutines and the order of their calls: there is never a second
\* logger; a call of Log or Init that has returned finds the logger made;
\* and once the Once is done no call (a later Init included) makes or
\* changes anything.
C33_LogIdempotent ==
    /\ [](/\ created.loggers <= 1
          /\ \A g \in Callers :
                (callers[g].fn \in {"Log", "Init"} /\ callers[g].pc = "returned")
                    => (created.loggers = 1 /\ once.done))
    /\ [][once.done => (created' = created /\ once'.done)]_vars

\* two goroutines have returned, one from Log and one from Init, after three
\* calls in all, and one logger has been made
C33_Witness ==
    /\ \E g, h \in Callers :
          /\ callers[g] = [fn |-> "Log", pc |-> "returned"]
          /\ callers[h] = [fn |-> "Init", pc |-> "returned"]
    /\ calls.total = MaxCalls
    /\ calls.initDatadog = 0
    /\ created.loggers = 1

\* C34: a step of ClientMiddleware on a request whose context holds a Trace
\* keeps that Trace's TraceID (and its sources and start) and gives it a
\* RequestID just generated, other than the context's; on a request without
\* a Trace it makes a new Trace, with two identifiers just generated. Either
\* way the headers carry the identifiers and sources of the Trace that is in
\* the context of the request passed on, which is the Trace given to
\* SaveToHeader.
C34_ClientKeepsTraceRenewsRequest ==
    [][ClientMiddleware =>
          /\ reqCtx'.ok
          /\ IF reqCtx.ok
             THEN /\ reqCtx'.t.TraceID = reqCtx.t.TraceID
                  /\ reqCtx'.t.RequestID # reqCtx.t.RequestID
                  /\ reqCtx'.t.RequestID = NewUuid(uuids')
                  /\ reqCtx'.t.RequestID \notin {0, reqCtx.t.TraceID}
                  /\ reqCtx'.t.TraceSource = reqCtx.t.TraceSource
                  /\ reqCtx'.t.TraceStart = reqCtx.t.TraceStart
             ELSE /\ reqCtx'.t.TraceID > NewUuid(uuids)
                  /\ reqCtx'.t.RequestID > NewUuid(uuids)
                  /\ reqCtx'.t.TraceID # reqCtx'.t.RequestID
                  /\ reqCtx'.t.TraceSource = thisServiceName
                  /\ reqCtx'.t.RequestSource = thisServiceName
                  /\ reqCtx'.t.TraceStart = clock
                  /\ reqCtx'.t.RequestStart = clock
          /\ saved' = reqCtx'
          /\ hdr'["X-Trace-Id"] = reqCtx'.t.TraceID
          /\ hdr'["X-Request-Id"] = reqCtx'.t.RequestID
          /\ hdr'["X-Trace-Source"] = reqCtx'.t.TraceSource
          /\ hdr'["X-Request-Source"] = reqCtx'.t.RequestSource
          /\ hdr'["X-Trace-Start"] = Format(reqCtx'.t.TraceStart)
          /\ DOMAIN hdr' = CanonicalKeys]_vars

\* ClientMiddleware has run on a request whose context held a Trace with
\* identifiers from outside: the Trace passed on has that TraceID and a
\* generated RequestID, and is the one in the headers
C34_Witness ==
    /\ reqCtx.ok
    /\ saved = reqCtx
    /\ ~got.ok
    /\ reqCtx.t.TraceID \in 1..NumPeerIDs
    /\ reqCtx.t.RequestID > NumPeerIDs
    /\ reqCtx.t.TraceSource = "svcA"
    /\ hdr["X-Trace-Id"] = reqCtx.t.TraceID
    /\ hdr["X-Request-Id"] = reqCtx.t.RequestID

\* C35: when FromHeaderOrNew reads the headers SaveToHeader wrote for a
\* Trace with a TraceID and a RequestID, the Trace it returns has that
\* TraceID, RequestID, TraceSource and RequestSource; and the Trace it returns
\* for any headers has a TraceID and a RequestID that are not empty: those
\* of the headers where they are not empty, generated ones where they are.
C35_IdentifiersRoundTrip ==
    /\ (saved.ok /\ got.ok /\ saved.t.TraceID # 0 /\ saved.t.RequestID # 0) =>
          /\ got.t.TraceID = saved.t.TraceID
          /\ got.t.RequestID = saved.t.RequestID
          /\ got.t.TraceSource = saved.t.TraceSource
          /\ got.t.RequestSource = saved.t.RequestSource
    /\ got.ok =>
          /\ got.t.TraceID # 0
          /\ got.t.RequestID # 0
          /\ DOMAIN hdr = CanonicalKeys
          /\ IF hdr["X-Trace-Id"] = 0
             THEN got.t.TraceID > NumPeerIDs
             ELSE got.t.TraceID = hdr["X-Trace-Id"]
          /\ IF hdr["X-Request-Id"] = 0
             THEN got.t.RequestID > NumPeerIDs
             ELSE got.t.RequestID = hdr["X-Request-Id"]
          /\ got.t.TraceID # got.t.RequestID \/ hdr["X-Trace-Id"] = hdr["X-Request-Id"]

\* FromHeaderOrNew has read the headers SaveToHeader wrote for a Trace of the
\* application with both identifiers and two different sources
C35_Witness ==
    /\ saved.ok
    /\ got.ok
    /\ saved.t.TraceID \in 1..NumPeerIDs
    /\ saved.t.RequestID \in 1..NumPeerIDs
    /\ saved.t.TraceID # saved.t.RequestID
    /\ saved.t.TraceSource = "svcA"
    /\ saved.t.RequestSource = "svcB"
    /\ got.t.TraceID = saved.t.TraceID
    /\ got.t.RequestSource = "svcB"

\* C36: the Trace FromHeaderOrNew returns starts no later than its request:
\* RequestStart is the current time, and TraceStart is the time of the
\* X-Trace-Start header if that is a time not after the current time, and
\* the current time if the header is missing, unparsable or in the future.
C36_TraceStartsBeforeRequest ==
    /\ [](got.ok => got.t.TraceStart <= got.t.RequestStart)
    /\ [][ServerMiddleware =>
             /\ got'.ok
             /\ got'.t.RequestStart = clock
             /\ LET v == hdr["X-Trace-Start"]
                IN IF v.kind = "time" /\ v.sec * TicksPerSecond <= clock
                   THEN got'.t.TraceStart = v.sec * TicksPerSecond
                   ELSE got'.t.TraceStart = clock]_vars

\* FromHeaderOrNew has read an X-Trace-Start later than the current time,
\* and returned the current time for both starts, some time after the start
\* of the run
C36_Witness ==
    /\ got.ok
    /\ ~saved.ok
    /\ hdr["X-Trace-Start"].kind = "time"
    /\ hdr["X-Trace-Start"].sec * TicksPerSecond > got.t.RequestStart
    /\ got.t.TraceStart = got.t.RequestStart
    /\ got.t.RequestStart > 0

====
